---- MODULE Spec2Model ----
(***************************************************************************)
(* Model of tools/lua/lfunc.cpp: the prototype and closure registries      *)
(* (luaF_newproto, luaF_newclosure, luaF_freeproto, luaF_freeclosure), the *)
(* weight counter L->nblocks, and the local variable lookup                *)
(* luaF_getlocalname.                                                      *)
(*                                                                         *)
(* Heap blocks are identified by 1..MaxObjects, handed out in increasing   *)
(* order, so a smaller identifier is an earlier creation.  NULL is 0.      *)
(* The owned buffers of a prototype (code, consts, locvars) are NULL after *)
(* luaF_newproto and nothing in lfunc.cpp fills them, so freefunc's three  *)
(* luaM_free calls on them are not represented.                            *)
(***************************************************************************)
EXTENDS Integers, Sequences, FiniteSets, TLC

\* ---------------------------------------------------------------- bounds
MaxObjects == 3      \* blocks the allocator can hand out in one run
MaxNelems  == 1      \* largest element count passed to luaF_newclosure
MaxRecs    == 4      \* debug records before the sentinel
MaxLine    == 2      \* largest line number carried by a debug record
MaxOrdinal == 3      \* largest local_number queried

\* ------------------------------------------------------------- constants
NULL == 0
InitialWeights == {0, 7}   \* values of L->nblocks when the run starts

Ids == 1..MaxObjects

\* ------------------------------------------------------- debug records
NoName     == "NULL"                 \* lv->varname == NULL (unregister)
Names      == {"a", "b"}
EndLine    == -1
Sentinel   == [line |-> EndLine, varname |-> NoName]
NoLocvars  == <<>>                   \* func->locvars == NULL
Unset      == "unset"

VARIABLES
  rootproto,   \* L->rootproto.next : head of the prototype list
  rootcl,      \* L->rootcl.next    : head of the closure list
  next,        \* head.next of every block
  kind,        \* "proto" | "closure" | "none" for every block
  nelems,      \* Closure::nelems of every block
  objs,        \* blocks handed out so far
  live,        \* blocks handed out and not yet released
  nblocks,     \* L->nblocks
  nblocks0,    \* value of L->nblocks when the run started
  isolated,    \* heads of the chains the caller cut off a registry list
  status,      \* "running" | "fatal" | "crash" | "undefined"
  call,        \* the last call: [op, arg, ret]
  func_locvars,     \* resolver input: func->locvars
  arg_local_number, \* resolver input: local_number
  arg_line,         \* resolver input: line
  result,      \* resolver output (a name, NoName, or Unset before the call)
  trace        \* loop variables of luaF_getlocalname when the loop ended

regvars == <<rootproto, rootcl, next, kind, nelems, objs, live, nblocks,
             nblocks0, isolated, status, call>>
resvars == <<func_locvars, arg_local_number, arg_line, result, trace>>
vars == <<rootproto, rootcl, next, kind, nelems, objs, live, nblocks,
          nblocks0, isolated, status, call,
          func_locvars, arg_local_number, arg_line, result, trace>>

\* ------------------------------------------------------------- weights
gcsizeproto(p) == 5

\* Variant: the weight of a closure grows with its element count.
gcsizeclosureByElems(c) == 1 + nelems[c]

gcsizeclosure(c) == 1

\* ------------------------------------------------------------- helpers
RECURSIVE Chain(_, _)
Chain(nx, l) == IF l = NULL THEN <<>> ELSE <<l>> \o Chain(nx, nx[l])

Range(s) == {s[i] : i \in 1..Len(s)}

RECURSIVE Reverse(_)
Reverse(s) == IF s = <<>> THEN <<>> ELSE Reverse(Tail(s)) \o <<Head(s)>>

RECURSIVE SortedSeq(_)
SortedSeq(S) ==
  IF S = {} THEN <<>>
  ELSE LET m == CHOOSE x \in S : \A y \in S : x <= y
       IN <<m>> \o SortedSeq(S \ {m})

Protos   == {o \in objs : kind[o] = "proto"}
Closures == {o \in objs : kind[o] = "closure"}

\* luaM_malloc / luaM_new: either the fresh block, or NULL standing for the
\* memory error that is raised instead of returning.
luaM_malloc == {NULL, Cardinality(objs) + 1}

\* luaO_insertlist(root, node): node->next = root->next; root->next = node
luaO_insertlist(root, node) == [root |-> node, link |-> root]

TypeOK ==
  /\ rootproto \in {NULL} \cup Ids
  /\ rootcl \in {NULL} \cup Ids
  /\ next \in [Ids -> {NULL} \cup Ids]
  /\ kind \in [Ids -> {"none", "proto", "closure"}]
  /\ nelems \in [Ids -> Nat]
  /\ objs \subseteq Ids
  /\ live \subseteq objs
  /\ nblocks \in Int
  /\ nblocks0 \in InitialWeights
  /\ isolated \subseteq objs
  /\ status \in {"running", "fatal", "crash", "undefined"}

InitRegistry ==
  /\ rootproto = NULL
  /\ rootcl = NULL
  /\ next = [o \in Ids |-> NULL]
  /\ kind = [o \in Ids |-> "none"]
  /\ nelems = [o \in Ids |-> 0]
  /\ objs = {}
  /\ live = {}
  /\ nblocks0 \in InitialWeights
  /\ nblocks = nblocks0
  /\ isolated = {}
  /\ status = "running"
  /\ call = [op |-> "init", arg |-> 0, ret |-> 0]

InitResolverIdle ==
  /\ func_locvars = NoLocvars
  /\ arg_local_number = 1
  /\ arg_line = 0
  /\ result = Unset
  /\ trace = [lv |-> 0, count |-> 0, at |-> 0]

Init == InitRegistry /\ InitResolverIdle

\* ------------------------------------------------------------ creation
\* Variant: the closure is linked into the prototype list.
NewClosureCallWrongRoot(n) ==
  /\ status = "running"
  /\ Cardinality(objs) < MaxObjects
  /\ \E c \in luaM_malloc :
       IF c = NULL
       THEN /\ status' = "fatal"
            /\ call' = [op |-> "newclosure", arg |-> n, ret |-> NULL]
            /\ UNCHANGED <<rootproto, rootcl, next, kind, nelems, objs, live,
                           nblocks, nblocks0, isolated>>
       ELSE LET ins == luaO_insertlist(rootproto, c)
            IN /\ objs' = objs \cup {c}
               /\ live' = live \cup {c}
               /\ kind' = [kind EXCEPT ![c] = "closure"]
               /\ rootproto' = ins.root
               /\ next' = [next EXCEPT ![c] = ins.link]
               /\ nblocks' = nblocks + gcsizeclosure(c)
               /\ nelems' = [nelems EXCEPT ![c] = n]
               /\ call' = [op |-> "newclosure", arg |-> n, ret |-> c]
               /\ UNCHANGED <<rootcl, nblocks0, isolated, status>>
  /\ UNCHANGED resvars

\* Variant: the assignment c->nelems = nelems is missing.
NewClosureCallNoNelems(n) ==
  /\ status = "running"
  /\ Cardinality(objs) < MaxObjects
  /\ \E c \in luaM_malloc :
       IF c = NULL
       THEN /\ status' = "fatal"
            /\ call' = [op |-> "newclosure", arg |-> n, ret |-> NULL]
            /\ UNCHANGED <<rootproto, rootcl, next, kind, nelems, objs, live,
                           nblocks, nblocks0, isolated>>
       ELSE LET ins == luaO_insertlist(rootcl, c)
            IN /\ objs' = objs \cup {c}
               /\ live' = live \cup {c}
               /\ kind' = [kind EXCEPT ![c] = "closure"]
               /\ rootcl' = ins.root
               /\ next' = [next EXCEPT ![c] = ins.link]
               /\ nblocks' = nblocks + gcsizeclosure(c)
               /\ call' = [op |-> "newclosure", arg |-> n, ret |-> c]
               /\ UNCHANGED <<rootproto, nelems, nblocks0, isolated, status>>
  /\ UNCHANGED resvars

\* Closure *luaF_newclosure (int32 nelems)
NewClosureCall(n) ==
  /\ status = "running"
  /\ Cardinality(objs) < MaxObjects
  /\ \E c \in luaM_malloc :
       IF c = NULL
       THEN /\ status' = "fatal"
            /\ call' = [op |-> "newclosure", arg |-> n, ret |-> NULL]
            /\ UNCHANGED <<rootproto, rootcl, next, kind, nelems, objs, live,
                           nblocks, nblocks0, isolated>>
       ELSE LET ins == luaO_insertlist(rootcl, c)
            IN /\ objs' = objs \cup {c}
               /\ live' = live \cup {c}
               /\ kind' = [kind EXCEPT ![c] = "closure"]
               /\ rootcl' = ins.root
               /\ next' = [next EXCEPT ![c] = ins.link]
               /\ nblocks' = nblocks + gcsizeclosure(c)
               /\ nelems' = [nelems EXCEPT ![c] = n]
               /\ call' = [op |-> "newclosure", arg |-> n, ret |-> c]
               /\ UNCHANGED <<rootproto, nblocks0, isolated, status>>
  /\ UNCHANGED resvars

luaF_newclosure == \E n \in 0..MaxNelems : NewClosureCall(n)

\* Variant: the weight is added before the allocation is known to succeed.
luaF_newprotoCountFirst ==
  /\ status = "running"
  /\ Cardinality(objs) < MaxObjects
  /\ \E f \in luaM_malloc :
       IF f = NULL
       THEN /\ status' = "fatal"
            /\ nblocks' = nblocks + gcsizeproto(f)
            /\ call' = [op |-> "newproto", arg |-> 0, ret |-> NULL]
            /\ UNCHANGED <<rootproto, rootcl, next, kind, nelems, objs, live,
                           nblocks0, isolated>>
       ELSE LET ins == luaO_insertlist(rootproto, f)
            IN /\ objs' = objs \cup {f}
               /\ live' = live \cup {f}
               /\ kind' = [kind EXCEPT ![f] = "proto"]
               /\ rootproto' = ins.root
               /\ next' = [next EXCEPT ![f] = ins.link]
               /\ nblocks' = nblocks + gcsizeproto(f)
               /\ call' = [op |-> "newproto", arg |-> 0, ret |-> f]
               /\ UNCHANGED <<rootcl, nelems, nblocks0, isolated, status>>
  /\ UNCHANGED resvars

\* TProtoFunc *luaF_newproto (void)
luaF_newproto ==
  /\ status = "running"
  /\ Cardinality(objs) < MaxObjects
  /\ \E f \in luaM_malloc :
       IF f = NULL
       THEN /\ status' = "fatal"
            /\ call' = [op |-> "newproto", arg |-> 0, ret |-> NULL]
            /\ UNCHANGED <<rootproto, rootcl, next, kind, nelems, objs, live,
                           nblocks, nblocks0, isolated>>
       ELSE LET ins == luaO_insertlist(rootproto, f)
            IN /\ objs' = objs \cup {f}
               /\ live' = live \cup {f}
               /\ kind' = [kind EXCEPT ![f] = "proto"]
               /\ rootproto' = ins.root
               /\ next' = [next EXCEPT ![f] = ins.link]
               /\ nblocks' = nblocks + gcsizeproto(f)
               /\ call' = [op |-> "newproto", arg |-> 0, ret |-> f]
               /\ UNCHANGED <<rootcl, nelems, nblocks0, isolated, status>>
  /\ UNCHANGED resvars

\* ------------------------------------------------------------- freeing
\* Variant: a prototype is released with the weight of a closure.
RECURSIVE FreeProtoLoopWrongWeight(_, _)
FreeProtoLoopWrongWeight(l, st) ==
  IF l = NULL THEN st
  ELSE LET nxt == next[l]
       IN FreeProtoLoopWrongWeight(nxt,
            [nblocks |-> st.nblocks - gcsizeclosure(l),
             live    |-> st.live \ {l},
             stale   |-> st.stale \/ l \notin st.live])

\* Variant: only the first prototype is released, the loop is missing.
FreeProtoLoopOnlyFirst(l, st) ==
  IF l = NULL THEN st
  ELSE [nblocks |-> st.nblocks - gcsizeproto(l),
        live    |-> st.live \ {l},
        stale   |-> st.stale \/ l \notin st.live]

\* The while loop of luaF_freeproto.  st.stale records that the loop read or
\* released a block that had already been released.
RECURSIVE FreeProtoLoop(_, _)
FreeProtoLoop(l, st) ==
  IF l = NULL THEN st
  ELSE LET nxt == next[l]
       IN FreeProtoLoop(nxt, [nblocks |-> st.nblocks - gcsizeproto(l),
                              live    |-> st.live \ {l},
                              stale   |-> st.stale \/ l \notin st.live])

\* Variant: the body runs once before l is tested, as in a do-while loop.
RECURSIVE FreeClosureLoopNoNullTest(_, _)
FreeClosureLoopNoNullTest(l, st) ==
  IF l = NULL THEN [st EXCEPT !.nblocks = @ - gcsizeclosure(l)]
  ELSE LET nxt == next[l]
       IN IF nxt = NULL
          THEN [nblocks |-> st.nblocks - gcsizeclosure(l),
                live    |-> st.live \ {l},
                stale   |-> st.stale \/ l \notin st.live]
          ELSE FreeClosureLoopNoNullTest(nxt,
                 [nblocks |-> st.nblocks - gcsizeclosure(l),
                  live    |-> st.live \ {l},
                  stale   |-> st.stale \/ l \notin st.live])

\* The while loop of luaF_freeclosure.
RECURSIVE FreeClosureLoop(_, _)
FreeClosureLoop(l, st) ==
  IF l = NULL THEN st
  ELSE LET nxt == next[l]
       IN FreeClosureLoop(nxt, [nblocks |-> st.nblocks - gcsizeclosure(l),
                                live    |-> st.live \ {l},
                                stale   |-> st.stale \/ l \notin st.live])

\* The effect of a free loop on the state.  A loop that touched released
\* memory has undefined behaviour: the allocator aborts the process, or the
\* loop runs on over the stale links and the state is no longer trusted.
FreeEffect(op, l, r) ==
  /\ call' = [op |-> op, arg |-> l, ret |-> 0]
  /\ IF ~r.stale
     THEN /\ nblocks' = r.nblocks
          /\ live' = r.live
          /\ UNCHANGED status
     ELSE \/ /\ status' = "crash"
             /\ UNCHANGED <<nblocks, live>>
          \/ /\ status' = "undefined"
             /\ nblocks' = r.nblocks
             /\ live' = r.live
  /\ UNCHANGED <<rootproto, rootcl, next, kind, nelems, objs, nblocks0,
                 isolated>>
  /\ UNCHANGED resvars

\* Variant: the released chain is also unlinked from the registry.
FreeProtoCallUnlink(l) ==
  /\ status = "running"
  /\ LET r == FreeProtoLoop(l, [nblocks |-> nblocks, live |-> live,
                                stale |-> FALSE])
     IN /\ call' = [op |-> "freeproto", arg |-> l, ret |-> 0]
        /\ IF ~r.stale
           THEN /\ nblocks' = r.nblocks
                /\ live' = r.live
                /\ UNCHANGED status
           ELSE \/ /\ status' = "crash"
                   /\ UNCHANGED <<nblocks, live>>
                \/ /\ status' = "undefined"
                   /\ nblocks' = r.nblocks
                   /\ live' = r.live
        /\ rootproto' = IF l # NULL /\ rootproto = l THEN NULL ELSE rootproto
        /\ next' = [o \in Ids |-> IF l # NULL /\ next[o] = l THEN NULL
                                  ELSE next[o]]
        /\ UNCHANGED <<rootcl, kind, nelems, objs, nblocks0, isolated>>
  /\ UNCHANGED resvars

\* void luaF_freeproto (TProtoFunc *l)
FreeProtoCall(l) ==
  /\ status = "running"
  /\ FreeEffect("freeproto", l,
                FreeProtoLoop(l, [nblocks |-> nblocks, live |-> live,
                                  stale |-> FALSE]))

luaF_freeproto == \E l \in {NULL} \cup Protos : FreeProtoCall(l)

\* void luaF_freeclosure (Closure *l)
FreeClosureCall(l) ==
  /\ status = "running"
  /\ FreeEffect("freeclosure", l,
                FreeClosureLoop(l, [nblocks |-> nblocks, live |-> live,
                                    stale |-> FALSE]))

luaF_freeclosure == \E l \in {NULL} \cup Closures : FreeClosureCall(l)

\* ------------------------------------------------------------- caller
\* The caller cuts the list in front of x, so that x..end is a chain of its
\* own, and keeps x as the handle it will pass to the free function.
Detach ==
  /\ status = "running"
  /\ \E x \in live :
       /\ \/ /\ kind[x] = "proto"
             /\ x \in Range(Chain(next, rootproto))
             /\ Range(Chain(next, rootproto)) \subseteq live
          \/ /\ kind[x] = "closure"
             /\ x \in Range(Chain(next, rootcl))
             /\ Range(Chain(next, rootcl)) \subseteq live
       /\ rootproto' = IF rootproto = x THEN NULL ELSE rootproto
       /\ rootcl' = IF rootcl = x THEN NULL ELSE rootcl
       /\ next' = [o \in Ids |-> IF o \in objs /\ next[o] = x THEN NULL
                                 ELSE next[o]]
       /\ isolated' = isolated \cup {x}
       /\ call' = [op |-> "detach", arg |-> x, ret |-> 0]
  /\ UNCHANGED <<kind, nelems, objs, live, nblocks, nblocks0, status>>
  /\ UNCHANGED resvars

\* ------------------------------------------------------------ resolver
\* Variant: an unregister record clears the name when the count only
\* reaches local_number (<= instead of <).
RECURSIVE GetLocalLoopClearEarly(_, _, _, _)
GetLocalLoopClearEarly(recs, st, local_number, line) ==
  IF recs[st.lv].line # EndLine /\ recs[st.lv].line < line
  THEN LET lv == recs[st.lv]
       IN IF lv.varname # NoName
          THEN LET c == st.count + 1
               IN GetLocalLoopClearEarly(recs,
                    [lv |-> st.lv + 1, count |-> c,
                     varname |-> IF c = local_number THEN lv.varname
                                 ELSE st.varname,
                     at |-> IF c = local_number THEN st.lv ELSE st.at],
                    local_number, line)
          ELSE LET c == st.count - 1
               IN GetLocalLoopClearEarly(recs,
                    [lv |-> st.lv + 1, count |-> c,
                     varname |-> IF c <= local_number THEN NoName
                                 ELSE st.varname,
                     at |-> IF c <= local_number THEN 0 ELSE st.at],
                    local_number, line)
  ELSE st

\* Variant: records at the queried line are consulted too (<= instead of <).
RECURSIVE GetLocalLoopInclusive(_, _, _, _)
GetLocalLoopInclusive(recs, st, local_number, line) ==
  IF recs[st.lv].line # EndLine /\ recs[st.lv].line <= line
  THEN LET lv == recs[st.lv]
       IN IF lv.varname # NoName
          THEN LET c == st.count + 1
               IN GetLocalLoopInclusive(recs,
                    [lv |-> st.lv + 1, count |-> c,
                     varname |-> IF c = local_number THEN lv.varname
                                 ELSE st.varname,
                     at |-> IF c = local_number THEN st.lv ELSE st.at],
                    local_number, line)
          ELSE LET c == st.count - 1
               IN GetLocalLoopInclusive(recs,
                    [lv |-> st.lv + 1, count |-> c,
                     varname |-> IF c < local_number THEN NoName
                                 ELSE st.varname,
                     at |-> IF c < local_number THEN 0 ELSE st.at],
                    local_number, line)
  ELSE st

\* The for loop of luaF_getlocalname.  recs is func->locvars, st.lv the
\* position of lv, st.count and st.varname the locals of the function;
\* st.at remembers which record st.varname was taken from (0: none).
RECURSIVE GetLocalLoop(_, _, _, _)
GetLocalLoop(recs, st, local_number, line) ==
  IF recs[st.lv].line # EndLine /\ recs[st.lv].line < line
  THEN LET lv == recs[st.lv]
       IN IF lv.varname # NoName
          THEN LET c == st.count + 1
               IN GetLocalLoop(recs,
                    [lv |-> st.lv + 1, count |-> c,
                     varname |-> IF c = local_number THEN lv.varname
                                 ELSE st.varname,
                     at |-> IF c = local_number THEN st.lv ELSE st.at],
                    local_number, line)
          ELSE LET c == st.count - 1
               IN GetLocalLoop(recs,
                    [lv |-> st.lv + 1, count |-> c,
                     varname |-> IF c < local_number THEN NoName
                                 ELSE st.varname,
                     at |-> IF c < local_number THEN 0 ELSE st.at],
                    local_number, line)
  ELSE st

GetLocalStart == [lv |-> 1, count |-> 0, varname |-> NoName, at |-> 0]

\* char *luaF_getlocalname (TProtoFunc *func, int32 local_number, int32 line)
luaF_getlocalname(locvars, local_number, line) ==
  IF locvars = NoLocvars THEN NoName
  ELSE GetLocalLoop(locvars, GetLocalStart, local_number, line).varname

\* A call of luaF_getlocalname on the inputs held in the state.
GetLocalName ==
  /\ status = "running"
  /\ result' = luaF_getlocalname(func_locvars, arg_local_number, arg_line)
  /\ trace' = IF func_locvars = NoLocvars THEN [lv |-> 0, count |-> 0, at |-> 0]
              ELSE LET st == GetLocalLoop(func_locvars, GetLocalStart,
                                          arg_local_number, arg_line)
                   IN [lv |-> st.lv, count |-> st.count, at |-> st.at]
  /\ UNCHANGED <<func_locvars, arg_local_number, arg_line>>
  /\ UNCHANGED regvars

\* Debug records the compiler can emit: lines 0..MaxLine in non-decreasing
\* order, never more unregister than register records in a prefix, and the
\* sentinel at the end.
LocVar == [line : 0..MaxLine, varname : Names \cup {NoName}]

Depth(recs, i) ==
  Cardinality({j \in 1..i : recs[j].varname # NoName})
    - Cardinality({j \in 1..i : recs[j].varname = NoName})

WellFormedBody(b) ==
  /\ \A i \in 1..Len(b) - 1 : b[i].line <= b[i + 1].line
  /\ \A i \in 1..Len(b) : Depth(b, i) >= 0

WellFormedLocvars ==
  {b \o <<Sentinel>> :
     b \in {x \in UNION {[1..k -> LocVar] : k \in 0..MaxRecs} :
              WellFormedBody(x)}}

InitResolver ==
  /\ func_locvars \in WellFormedLocvars \cup {NoLocvars}
  /\ arg_local_number \in 1..MaxOrdinal
  /\ arg_line \in -1..MaxLine + 1
  /\ result = Unset
  /\ trace = [lv |-> 0, count |-> 0, at |-> 0]

Next ==
  \/ luaF_newproto
  \/ luaF_newclosure
  \/ luaF_freeproto
  \/ luaF_freeclosure
  \/ Detach
  \/ GetLocalName

Spec == Init /\ [][Next]_vars

\* The resolver on its own: the inputs are drawn by the initial state.
ResolveInit == InitRegistry /\ InitResolver

ResolveNext == GetLocalName

ResolveSpec == ResolveInit /\ [][ResolveNext]_vars

\* ====================================================== claim formulas
ReachRoots(rp, rc, nx) == Range(Chain(nx, rp)) \cup Range(Chain(nx, rc))

\* The step is a call of a free function whose loop touched no released
\* block.
FreeStep ==
  /\ call' # call
  /\ call'.op \in {"freeproto", "freeclosure"}
  /\ status' = "running"

\* C1: once every prototype and every closure created since the start has
\* been released by the free functions, the weight counter L->nblocks has
\* the value it had at the start.
C1Theorem ==
  (status # "undefined" /\ objs # {} /\ live = {}) => nblocks = nblocks0

C1Witness ==
  /\ status = "running"
  /\ live = {}
  /\ isolated = {}
  /\ Protos # {} /\ Closures # {}
  /\ Cardinality(objs) >= 3
  /\ call.op \in {"freeproto", "freeclosure"}
  /\ Range(Chain(next, rootproto)) = Protos
  /\ Range(Chain(next, rootcl)) = Closures
  /\ nblocks = nblocks0

\* C2 (as stated): a free call on node X releases exactly the objects from
\* X to the end of the chain, and none of them was created before X.
C2Original ==
  [][(FreeStep /\ call'.arg # NULL) =>
       /\ live \ live' = Range(Chain(next, call'.arg))
       /\ \A o \in live \ live' : ~(o < call'.arg)]_vars

\* C2 (amended): a free call on node X of a chain of live objects releases
\* exactly the objects from X to the end of the chain; none of them was
\* created after X, so every object linked in front of X stays live.
C2Theorem ==
  [][(FreeStep /\ call'.arg # NULL) =>
       /\ live \ live' = Range(Chain(next, call'.arg))
       /\ live' = live \ Range(Chain(next, call'.arg))
       /\ \A o \in live \ live' : o <= call'.arg]_vars

C2Witness ==
  /\ status = "running"
  /\ call.op = "freeproto"
  /\ call.arg # NULL
  /\ call.arg \notin live
  /\ \E o \in Protos : o < call.arg /\ o \notin live /\ next[call.arg] = o
  /\ \E o \in Protos : o > call.arg /\ o \in live

\* C3: while nothing has been released or cut off, the walk from each
\* registry root visits all objects of that kind, once each, the most
\* recently created first, whatever was created of the other kind.
C3Theorem ==
  (live = objs /\ isolated = {}) =>
     /\ Chain(next, rootproto) = Reverse(SortedSeq(Protos))
     /\ Chain(next, rootcl) = Reverse(SortedSeq(Closures))

C3Witness ==
  /\ live = objs /\ isolated = {}
  /\ Cardinality(objs) >= 3
  /\ \E p1, p2 \in Protos, c \in Closures : p1 < c /\ c < p2
  /\ Len(Chain(next, rootproto)) = Cardinality(Protos)
  /\ Len(Chain(next, rootproto)) >= 2

\* ------------------------------------------------- resolver reference
\* The stack of live locals after the records of recs whose line is
\* strictly before q, computed record by record with pushes and pops.
RECURSIVE ApplyRecords(_, _)
ApplyRecords(recs, stack) ==
  IF recs = <<>> THEN stack
  ELSE IF Head(recs).varname # NoName
       THEN ApplyRecords(Tail(recs), Append(stack, Head(recs).varname))
       ELSE ApplyRecords(Tail(recs), SubSeq(stack, 1, Len(stack) - 1))

StrictlyBefore(r, q) == r.line < q

LiveStackBefore(recs, q) ==
  LET body == SubSeq(recs, 1, Len(recs) - 1)
      seen == SelectSeq(body, LAMBDA r : StrictlyBefore(r, q))
  IN ApplyRecords(seen, <<>>)

NameAtOrdinal(recs, n, q) ==
  LET stack == LiveStackBefore(recs, q)
  IN IF Len(stack) >= n THEN stack[n] ELSE NoName

\* C4: on well-formed records luaF_getlocalname returns the name at position
\* local_number of the stack of locals live after all records strictly
\* before the queried line, and NULL when fewer locals are live.
C4Theorem ==
  (result # Unset /\ func_locvars # NoLocvars) =>
     result = NameAtOrdinal(func_locvars, arg_local_number, arg_line)

\* An ordinal released and taken again by another variable: the later name.
C4Witness ==
  /\ result # Unset /\ func_locvars # NoLocvars
  /\ Len(func_locvars) >= 4
  /\ func_locvars[1].varname = "a"
  /\ func_locvars[2].varname = NoName
  /\ func_locvars[3].varname = "b"
  /\ arg_local_number = 1
  /\ arg_line > func_locvars[3].line
  /\ result = "b"

\* The record that ends the scope opened by register record i for ordinal n:
\* the first later record after which fewer than n locals are live (0: none).
ScopeEnd(recs, i, n) ==
  LET ends == {j \in i + 1..Len(recs) - 1 : Depth(recs, j) < n}
  IN IF ends = {} THEN 0 ELSE CHOOSE j \in ends : \A k \in ends : j <= k

\* recs with record i turned from register into unregister or back.
Flipped(recs, i) ==
  [recs EXCEPT ![i].varname = IF @ = NoName THEN "a" ELSE NoName]

\* C5: the scan consults exactly the records in front of the first record
\* whose line is -1 or not less than the queried line; a record at the
\* queried line has no influence on the result; a variable registered at
\* line R as the local_number-th live local is not returned for a queried
\* line <= R and is returned for every queried line > R up to and including
\* the line of the record that unregisters it.
C5Theorem ==
  (result # Unset /\ func_locvars # NoLocvars) =>
     LET recs == func_locvars
         n == arg_local_number
         q == arg_line
     IN /\ trace.lv \in 1..Len(recs)
        /\ \A i \in 1..trace.lv - 1 :
              recs[i].line # EndLine /\ recs[i].line < q
        /\ recs[trace.lv].line = EndLine \/ recs[trace.lv].line >= q
        /\ \A i \in 1..Len(recs) - 1 :
              recs[i].line = q =>
                 luaF_getlocalname(Flipped(recs, i), n, q) = result
        /\ \A i \in 1..Len(recs) - 1 :
              (recs[i].varname # NoName /\ Depth(recs, i) = n) =>
                 LET u == ScopeEnd(recs, i, n)
                 IN /\ q <= recs[i].line => trace.at # i
                    /\ (q > recs[i].line /\ (u = 0 \/ q <= recs[u].line)) =>
                          (trace.at = i /\ result = recs[i].varname)

\* The query line is the line of the unregister record, and the variable is
\* still found.
C5Witness ==
  /\ result # Unset /\ func_locvars # NoLocvars
  /\ \E i \in 1..Len(func_locvars) - 1 :
        /\ func_locvars[i].varname # NoName
        /\ Depth(func_locvars, i) = arg_local_number
        /\ ScopeEnd(func_locvars, i, arg_local_number) # 0
        /\ arg_line = func_locvars[ScopeEnd(func_locvars, i,
                                            arg_local_number)].line
        /\ arg_line > func_locvars[i].line
        /\ trace.at = i
        /\ result = func_locvars[i].varname

\* C6: a creation whose allocation fails ends in the fatal outcome, returns
\* no object, links nothing and leaves the weight counter alone; what the
\* registry roots reach is then still made of constructed objects only.
C6Theorem ==
  /\ [](status = "fatal" =>
          /\ call.op \in {"newproto", "newclosure"}
          /\ call.ret = NULL
          /\ Range(Chain(next, rootproto)) \subseteq Protos
          /\ Range(Chain(next, rootcl)) \subseteq Closures)
  /\ [][(status = "running" /\ status' = "fatal") =>
          /\ call'.ret = NULL
          /\ UNCHANGED <<rootproto, rootcl, next, kind, nelems, objs, live,
                         nblocks>>]_vars

C6Witness ==
  /\ status = "fatal"
  /\ call.op = "newproto"
  /\ Protos # {} /\ Closures # {}
  /\ nblocks > nblocks0

\* C7: luaF_newclosure(n) returns a closure whose nelems is n, and no later
\* call changes the nelems of a closure that stays live.
C7Theorem ==
  /\ []((call.op = "newclosure" /\ call.ret # NULL) =>
          nelems[call.ret] = call.arg)
  /\ [][\A c \in Closures \cap live \cap live' : nelems'[c] = nelems[c]]_vars

C7Witness ==
  /\ status = "running"
  /\ call.op \in {"freeproto", "freeclosure"}
  /\ live # objs
  /\ \E c \in Closures \cap live : nelems[c] = MaxNelems
  /\ \E c \in Closures \cap live : nelems[c] = 0

\* C8: a free call with a NULL handle releases nothing and changes neither
\* the weight counter, nor a registry root, nor a link, nor the outcome.
C8Theorem ==
  [][(call' # call /\ call'.op \in {"freeproto", "freeclosure"}
        /\ call'.arg = NULL) =>
       UNCHANGED <<rootproto, rootcl, next, kind, nelems, objs, live,
                   nblocks, status>>]_vars

C8Witness ==
  /\ call.op = "freeclosure"
  /\ call.arg = NULL
  /\ status = "running"
  /\ live # {}
  /\ nblocks = nblocks0 + 5 * Cardinality(live \cap Protos)
                        + Cardinality(live \cap Closures)

\* C9: a free call on X changes no registry root and no link, so whatever
\* pointed at X still does; released objects stay reachable from a registry
\* root exactly when X was reachable from one before the call.
C9Theorem ==
  [][(FreeStep /\ call'.arg # NULL) =>
       LET x == call'.arg
       IN /\ rootproto' = rootproto /\ rootcl' = rootcl
          /\ \A o \in objs \ Range(Chain(next, x)) : next'[o] = next[o]
          /\ \A o \in objs : next[o] = x => next'[o] = x
          /\ x \in ReachRoots(rootproto, rootcl, next) =>
                /\ x \notin live'
                /\ x \in ReachRoots(rootproto', rootcl', next')
          /\ ReachRoots(rootproto, rootcl, next) \subseteq live =>
                (ReachRoots(rootproto', rootcl', next') \subseteq live'
                   <=> x \notin ReachRoots(rootproto, rootcl, next))]_vars

\* X was still linked behind a live node when it was released.
C9Witness ==
  /\ status = "running"
  /\ call.op = "freeproto"
  /\ call.arg # NULL
  /\ call.arg \notin live
  /\ call.arg \notin isolated
  /\ \E o \in live : next[o] = call.arg
  /\ call.arg \in Range(Chain(next, rootproto))

\* C10: as long as no free loop has touched a released block, the weight
\* counter is its initial value plus 5 per live prototype plus 1 per live
\* closure, whatever the element counts of the closures.
C10Theorem ==
  status # "undefined" =>
     nblocks = nblocks0 + 5 * Cardinality(live \cap Protos)
                        + 1 * Cardinality(live \cap Closures)

C10Witness ==
  /\ status = "running"
  /\ \E c1, c2 \in live \cap Closures : nelems[c1] # nelems[c2]
  /\ \E p \in Protos : p \notin live
  /\ isolated # {}

====
